---- MODULE Spec2Model ----
(***************************************************************************)
(* Model of effort_analysis_viewer.py: the cascading category filter, the  *)
(* unit filter, the derivation of the aggregation key, the group-by sum,   *)
(* the sort of the result, the chart projection, and the command-line      *)
(* entry point.                                                            *)
(*                                                                         *)
(* A table (pandas DataFrame) is a record [columns, rows]: the set of      *)
(* column names and the sequence of rows, each row a function from the     *)
(* columns to a cell.  Category and unit cells are strings or NaN; cells   *)
(* of the effort column are integers (hours in a fixed unit).  Column and  *)
(* value names are ASCII stand-ins for the Japanese strings of the source. *)
(***************************************************************************)
EXTENDS Integers, Sequences, FiniteSets, TLC

VARIABLES
    df_source,          \* the loaded table, or None
    load_error,         \* load_data returned None
    selected,           \* multiselect values: filter column -> chosen set
    sort_column,        \* selectbox "sort column"
    sort_ascending,     \* radio "sort order" = ascending
    graph_type,         \* selectbox "graph type"
    num_items_to_show,  \* selectbox "number of items"
    filtered_df,        \* rows after all filters
    applied_filters,    \* category column -> chosen set, for non-empty choices
    group_cols,         \* the aggregation key
    result_df,          \* aggregated rows, in groupby order
    result_df_sorted,   \* aggregated rows after sort_values
    plot_df_n,          \* the rows selected for the chart, labelled
    fig,                \* the sequence handed to px.bar
    listing,            \* the flat listing of the empty-key branch
    shown,              \* what the pass put on the page
    total_effort,       \* the "total hours" metric of the pass
    pc,                 \* command line: position of the process
    argv,               \* command line: the arguments and the environment
    stdout,             \* command line: printed lines
    report,             \* command line: the figures of the last result printed
    exit_status         \* command line: << >> while running, else <<status>>

gui_vars == <<df_source, load_error, selected, sort_column, sort_ascending,
              graph_type, num_items_to_show, filtered_df, applied_filters,
              group_cols, result_df, result_df_sorted, plot_df_n, fig, listing,
          shown,
              total_effort>>
cli_vars == <<pc, argv, stdout, report, exit_status>>
vars == <<df_source, load_error, selected, sort_column, sort_ascending,
          graph_type, num_items_to_show, filtered_df, applied_filters,
          group_cols, result_df, result_df_sorted, plot_df_n, fig, listing,
          shown,
          total_effort, pc, argv, stdout, report, exit_status>>

----------------------------------------------------------------------------
(* Constants of the program *)

BLANK_STR == "[blank]"

BASE_COLUMN_ORDER ==
    << "USER_FIELD_01", "USER_FIELD_02", "USER_FIELD_03",
       "WORK_1", "WORK_2", "WORK_3", "WORK_4", "WORK_5" >>

UNIT_COL == "UNIT"

EFFORT_COL == "EFFORT_H"

\* num_items_options = [10, 20, 50, 100, "all"]; the one choice that is
\* not an integer is written 0
ALL_ITEMS == 0
num_items_options == {10, 20, 50, 100, ALL_ITEMS}

HORIZONTAL == "horizontal_bar"
VERTICAL == "vertical_bar"
graph_type_options == {HORIZONTAL, VERTICAL}

\* pandas' missing value
NaN == "NaN"

----------------------------------------------------------------------------
(* Bounds of the model *)

\* rows of a table of the small family
MaxRows == 2

\* leading columns of BASE_COLUMN_ORDER that a table of the wide family may hold
MaxWideCols == 5

\* rows of a table of the long family
MaxLongRows == 11

----------------------------------------------------------------------------
(* Generic helpers *)

Range(s) == {s[i] : i \in DOMAIN s}

SeqsUpTo(S, n) == UNION {[1..k -> S] : k \in 0..n}

Reverse(s) == [i \in 1..Len(s) |-> s[Len(s) + 1 - i]]

\* position of x in the sequence s (x occurs in s)
IndexOf(s, x) == CHOOSE i \in DOMAIN s : s[i] = x

\* str(x) order of the cell values the tables hold: '[' sorts before the
\* lower-case letters
StrOrder ==
    << BLANK_STR, "a", "b", "k01", "k02", "k03", "k04", "k05", "k06", "k07",
       "k08", "k09", "k10", "k11", "k12", "k13" >>

StrRank(v) == IndexOf(StrOrder, v)

\* list comprehension [c for c in cols if c in columns]
ColsIn(cols, columns) == SelectSeq(cols, LAMBDA c : c \in columns)

----------------------------------------------------------------------------
(* The tables a file can hold *)

Row(cats, e, hasEffort) ==
    [c \in DOMAIN cats \cup (IF hasEffort THEN {EFFORT_COL} ELSE {}) |->
        IF c = EFFORT_COL THEN e ELSE cats[c]]

Table(columns, rows) == [none |-> FALSE, columns |-> columns, rows |-> rows]

\* df_source = None
None == [none |-> TRUE, columns |-> {}, rows |-> << >>]

\* small family: two category columns and the unit column, each present or
\* not, cells missing or not, the i-th row booking i hours; and the same
\* tables without the effort column, of one row at most
SmallColumns == {BASE_COLUMN_ORDER[1], BASE_COLUMN_ORDER[2], UNIT_COL}
SmallValues == {NaN, "a"}

TablesOver(cs, he) ==
    { Table(cs \cup (IF he THEN {EFFORT_COL} ELSE {}),
            [i \in DOMAIN cells |-> Row(cells[i], i, he)]) :
        cells \in SeqsUpTo([cs -> SmallValues], IF he THEN MaxRows ELSE 1) }

SmallTables ==
    UNION { TablesOver(cs, he) : cs \in SUBSET SmallColumns, he \in BOOLEAN }

\* wide family: one row, any subset of the leading category columns
WideColumns == {BASE_COLUMN_ORDER[i] : i \in 1..MaxWideCols}

WideTables ==
    { Table(cs \cup us \cup {EFFORT_COL},
            << Row([c \in cs \cup us |-> "a"], 1, TRUE) >>) :
        cs \in SUBSET WideColumns, us \in {{}, {UNIT_COL}} }

\* long family: n rows with pairwise different keys; the first two rows
\* book the same hours, the others each their own
LongTables ==
    { Table({BASE_COLUMN_ORDER[1], EFFORT_COL},
            [i \in 1..n |->
                Row([c \in {BASE_COLUMN_ORDER[1]} |-> StrOrder[3 + ((i * 5) % 13)]],
                    IF i = 1 THEN 2 ELSE i, TRUE)]) :
        n \in (MaxLongRows - 3)..MaxLongRows }

----------------------------------------------------------------------------
(* 4.1 / 4.2  blank normalisation and the filters *)

\* Series.fillna(BLANK_STR) on one cell
FillNa(v) == IF v = NaN THEN BLANK_STR ELSE v

\* filtered_df[col].fillna(BLANK_STR).unique()
Options(rows, col) == {FillNa(rows[i][col]) : i \in DOMAIN rows}

\* mutant: the chosen labels are matched by isin alone, the sentinel never
\* translated to a null test
FilterColumn_isinOnly(rows, col, chosen) ==
    SelectSeq(rows, LAMBDA r : r[col] \in chosen)

\* the row test of one column with a non-empty chosen set
FilterColumn(rows, col, chosen) ==
    LET filter_values_actual == {IF v = BLANK_STR THEN NaN ELSE v : v \in chosen}
        is_nan_selected == NaN \in filter_values_actual
        non_nan_values == filter_values_actual \ {NaN}
    IN  IF is_nan_selected
        THEN SelectSeq(rows, LAMBDA r : r[col] \in non_nan_values \/ r[col] = NaN)
        ELSE SelectSeq(rows, LAMBDA r : r[col] \in non_nan_values)

available_base_columns(df) == ColsIn(BASE_COLUMN_ORDER, df.columns)

unit_col_exists_in_source(df) == UNIT_COL \in df.columns

\* mutant: the options are enumerated from the unfiltered source table
CascadeOptions_fromSource(df, rows, col) == Options(df.rows, col)

\* the options the multiselect of a category column offers: the values of
\* the column in filtered_df, the rows left by the columns before it
CascadeOptions(df, rows, col) == Options(rows, col)

\* the loop over the category columns, from the i-th on: the rows left and
\* the filters applied.  sel[col] is what the multiselect of col returns.
RECURSIVE CascadeFilter(_, _, _, _, _, _)
CascadeFilter(df, rows, cols, i, sel, applied) ==
    IF i > Len(cols) THEN [rows |-> rows, applied |-> applied]
    ELSE LET col == cols[i]
             options_with_blank == CascadeOptions(df, rows, col)
             chosen == IF options_with_blank = {} THEN {} ELSE sel[col]
         IN  IF chosen = {}
             THEN CascadeFilter(df, rows, cols, i + 1, sel, applied)
             ELSE CascadeFilter(df, FilterColumn(rows, col, chosen), cols, i + 1, sel,
                                applied @@ (col :> chosen))

\* mutant: the unit test selects from the source table, not from the rows
\* the category filters left
UnitFilter_onSource(rows, df, sel) ==
    IF unit_col_exists_in_source(df) /\ sel[UNIT_COL] # {}
    THEN FilterColumn(df.rows, UNIT_COL, sel[UNIT_COL])
    ELSE rows

\* the unit filter, always last, its options taken from the source table
UnitOptions(df) == Options(df.rows, UNIT_COL)

UnitFilter(rows, df, sel) ==
    IF unit_col_exists_in_source(df) /\ sel[UNIT_COL] # {}
    THEN FilterColumn(rows, UNIT_COL, sel[UNIT_COL])
    ELSE rows

EmptyFun == [x \in {} |-> {}]

\* the columns that carry a multiselect
FilterColumns(df) ==
    Range(available_base_columns(df))
        \cup (IF unit_col_exists_in_source(df) THEN {UNIT_COL} ELSE {})

\* every value the multiselects can return in one pass: each chosen set is a
\* subset of the options offered at that point (no widget, no choice)
RECURSIVE CascadeSelections(_, _, _, _)
CascadeSelections(df, rows, cols, i) ==
    IF i > Len(cols) THEN {EmptyFun}
    ELSE UNION { { (cols[i] :> chosen) @@ s :
                     s \in CascadeSelections(
                              df,
                              IF chosen = {} THEN rows
                              ELSE FilterColumn(rows, cols[i], chosen),
                              cols, i + 1) } :
                 chosen \in SUBSET CascadeOptions(df, rows, cols[i]) }

Selections(df) ==
    LET cat == CascadeSelections(df, df.rows, available_base_columns(df), 1)
    IN  IF unit_col_exists_in_source(df)
        THEN UNION { { (UNIT_COL :> u) @@ s : s \in cat } :
                     u \in SUBSET UnitOptions(df) }
        ELSE cat

NoSelection(df) == [c \in FilterColumns(df) |-> {}]

----------------------------------------------------------------------------
(* 4.3  the aggregation key *)

\* mutant: the scan is not reversed and stops at the first filtered column
first_selected_base_filter_index(available, applied) ==
    LET hits == {i \in DOMAIN available : available[i] \in DOMAIN applied}
    IN  IF hits = {} THEN 0 ELSE CHOOSE i \in hits : \A j \in hits : i <= j

\* position of the last available category column with an applied filter,
\* 0 when there is none (the source's -1)
last_selected_base_filter_index(available, applied) ==
    LET hits == {i \in DOMAIN available : available[i] \in DOMAIN applied}
    IN  IF hits = {} THEN 0 ELSE CHOOSE i \in hits : \A j \in hits : j <= i

\* the key before the unit column is appended
BaseGroupCols(available, applied, columns) ==
    IF DOMAIN applied # {}
    THEN LET last == last_selected_base_filter_index(available, applied)
         IN  IF last # 0
             THEN ColsIn(SubSeq(available, last + 1, Len(available)), columns)
             ELSE << >>
    ELSE ColsIn(available, columns)

\* mutant: the unit column is put in front of the key
AppendUnit_inFront(cols, unit_exists, columns) ==
    IF unit_exists /\ UNIT_COL \notin Range(cols) /\ UNIT_COL \in columns
    THEN << UNIT_COL >> \o cols
    ELSE cols

AppendUnit(cols, unit_exists, columns) ==
    IF unit_exists /\ UNIT_COL \notin Range(cols) /\ UNIT_COL \in columns
    THEN Append(cols, UNIT_COL)
    ELSE cols

GroupCols(available, applied, unit_exists, columns) ==
    AppendUnit(BaseGroupCols(available, applied, columns), unit_exists, columns)

----------------------------------------------------------------------------
(* 4.4  the aggregation *)

RECURSIVE SumEffort(_)
SumEffort(rows) ==
    IF rows = << >> THEN 0 ELSE Head(rows)[EFFORT_COL] + SumEffort(Tail(rows))

KeyOf(r, cols) == [i \in 1..Len(cols) |-> r[cols[i]]]

\* groupby sorts the groups by key, column by column, missing values last
CellRank(v) == IF v = NaN THEN Len(StrOrder) + 1 ELSE StrRank(v)

KeyLess(a, b) ==
    \E i \in DOMAIN a :
        /\ \A j \in 1..(i - 1) : a[j] = b[j]
        /\ CellRank(a[i]) < CellRank(b[i])

RECURSIVE SortedKeys(_)
SortedKeys(S) ==
    IF S = {} THEN << >>
    ELSE LET m == CHOOSE k \in S : \A o \in S \ {k} : KeyLess(k, o)
         IN  << m >> \o SortedKeys(S \ {m})

\* mutant: groupby with its default dropna=True
GroupKeys_dropna(rows, cols) ==
    {k \in {KeyOf(rows[i], cols) : i \in DOMAIN rows} : \A i \in DOMAIN k : k[i] # NaN}

\* the keys groupby(group_cols, dropna=False) forms
GroupKeys(rows, cols) == {KeyOf(rows[i], cols) : i \in DOMAIN rows}

\* filtered_df.groupby(group_cols, dropna=False)[EFFORT_COL].sum().reset_index()
\* followed by fillna(BLANK_STR) on the key columns
GroupBySum(rows, cols) ==
    LET keys == SortedKeys(GroupKeys(rows, cols))
    IN  [g \in 1..Len(keys) |->
            [c \in Range(cols) \cup {EFFORT_COL} |->
                IF c = EFFORT_COL
                THEN SumEffort(SelectSeq(rows, LAMBDA r : KeyOf(r, cols) = keys[g]))
                ELSE FillNa(keys[g][IndexOf(cols, c)])]]

----------------------------------------------------------------------------
(* 4.5  the sort *)

\* the value sort_values compares: key=col.astype(str) for an object column,
\* the number itself for the effort column
SortKey(r, col) == IF col = EFFORT_COL THEN r[col] ELSE StrRank(r[col])

Before(r, s, col, ascending) ==
    IF ascending THEN SortKey(r, col) < SortKey(s, col)
    ELSE SortKey(r, col) > SortKey(s, col)

\* sort_values(by=col, ascending=...) is called with the default
\* kind='quicksort', which orders the rows by the key and promises nothing
\* about rows with equal keys: every order of I that respects the key
RECURSIVE QuickSortOrders(_, _, _, _)
QuickSortOrders(df, I, col, ascending) ==
    IF I = {} THEN {<< >>}
    ELSE UNION { { << i >> \o t : t \in QuickSortOrders(df, I \ {i}, col, ascending) } :
                 i \in {j \in I : \A k \in I : ~Before(df[k], df[j], col, ascending)} }

\* the results sort_values can return
SortValues(df, col, ascending) ==
    IF df = << >> THEN {df}
    ELSE { [i \in 1..Len(df) |-> df[p[i]]] :
             p \in QuickSortOrders(df, DOMAIN df, col, ascending) }

----------------------------------------------------------------------------
(* 4.6  the chart *)

\* plot_df: each row with its label, the key values to be joined by " / "
PlotDf(sorted, item_cols) ==
    [i \in 1..Len(sorted) |->
        [label |-> IF item_cols # << >> THEN KeyOf(sorted[i], item_cols)
                   ELSE << "total" >>,
         effort |-> sorted[i][EFFORT_COL]]]

\* mutant: the last n rows are taken
PlotDfN_tail(plot_df, n) ==
    IF n # ALL_ITEMS /\ n < Len(plot_df)
    THEN SubSeq(plot_df, Len(plot_df) - n + 1, Len(plot_df)) ELSE plot_df

\* plot_df.head(n) for an integer n below the row count, else plot_df
PlotDfN(plot_df, n) ==
    IF n # ALL_ITEMS /\ n < Len(plot_df) THEN SubSeq(plot_df, 1, n) ELSE plot_df

\* the rows px.bar receives
Figure(plot_n, gt) == IF gt = HORIZONTAL THEN Reverse(plot_n) ELSE plot_n

----------------------------------------------------------------------------
(* One pass of run_streamlit_app over a loaded table *)

\* what the page shows
INFO_UPLOAD == "info_upload_a_file"
ERROR_LOAD == "error_load"
METRIC_COUNT == "metric_row_count"
METRIC_TOTAL == "metric_total_effort"
ERROR_NO_EFFORT == "error_effort_column_missing"
TABLE == "result_table"
CHART == "bar_chart"
NO_CHART == "no_chart"
FALLBACK_TOTAL == "metric_fallback_total"
FALLBACK_LISTING == "fallback_listing"
INFO_NO_MATCH == "info_no_matching_data"

\* mutant: the branch does not test whether any row is left
Fallback_noEmptyTest(rows, display_cols) ==
    [shown |-> {FALLBACK_TOTAL, FALLBACK_LISTING},
     listing |-> [i \in 1..Len(rows) |-> [c \in display_cols |-> rows[i][c]]]]

\* the branch taken when the key is empty
Fallback(rows, display_cols) ==
    IF rows # << >>
    THEN [shown |-> {FALLBACK_TOTAL, FALLBACK_LISTING},
          listing |-> [i \in 1..Len(rows) |-> [c \in display_cols |-> rows[i][c]]]]
    ELSE [shown |-> {INFO_NO_MATCH}, listing |-> << >>]

\* every outcome of the pass for the widget values given; sc is kept when the
\* sort selectbox still offers it and is its default otherwise
Pass(df, sel, sc, asc, gt, n) ==
    LET available == available_base_columns(df)
        unit_exists == unit_col_exists_in_source(df)
        cascade == CascadeFilter(df, df.rows, available, 1, sel, EmptyFun)
        rows == UnitFilter(cascade.rows, df, sel)
        keys == GroupCols(available, cascade.applied, unit_exists, df.columns)
        has_effort == EFFORT_COL \in df.columns
        metrics == {METRIC_COUNT} \cup (IF has_effort THEN {METRIC_TOTAL} ELSE {})
        head == [filtered_df |-> rows, applied_filters |-> cascade.applied,
                 group_cols |-> keys,
                 total_effort |-> IF has_effort THEN SumEffort(rows) ELSE 0]
        none == [result_df |-> << >>, result_df_sorted |-> << >>, plot_df_n |-> << >>,
                 fig |-> << >>, sort_column |-> EFFORT_COL]
    IN  IF ~has_effort
        THEN { head @@ none @@
               [shown |-> metrics \cup {ERROR_NO_EFFORT}, listing |-> << >>] }
        ELSE IF keys # << >>
        THEN LET result == GroupBySum(rows, keys)
                 col == IF sc \in Range(keys) THEN sc ELSE EFFORT_COL
             IN  { LET plot_n == PlotDfN(PlotDf(sorted, keys), n)
                   IN  head @@
                       [result_df |-> result, result_df_sorted |-> sorted,
                        plot_df_n |-> plot_n,
                        fig |-> Figure(plot_n, gt),
                        listing |-> << >>, sort_column |-> col,
                        shown |-> metrics \cup {TABLE}
                                  \cup (IF plot_n = << >> THEN {NO_CHART} ELSE {CHART})]
                   : sorted \in SortValues(result, col, asc) }
        ELSE LET display_cols_fallback ==
                     Range(available)
                        \cup (IF unit_exists THEN {UNIT_COL} ELSE {})
                        \cup {EFFORT_COL}
                 fb == Fallback(rows, display_cols_fallback)
             IN  { head @@ none @@
                   [shown |-> metrics \cup fb.shown, listing |-> fb.listing] }

\* the pass as an action: a step that was not executed leaves an empty
\* sequence, and shown tells which steps were
RunPass(df, sel, sc, asc, gt, n) ==
    \E o \in Pass(df, sel, sc, asc, gt, n) :
        /\ df_source' = df
        /\ load_error' = FALSE
        /\ selected' = sel
        /\ sort_column' = o.sort_column
        /\ sort_ascending' = asc
        /\ graph_type' = gt
        /\ num_items_to_show' = n
        /\ filtered_df' = o.filtered_df
        /\ applied_filters' = o.applied_filters
        /\ group_cols' = o.group_cols
        /\ result_df' = o.result_df
        /\ result_df_sorted' = o.result_df_sorted
        /\ plot_df_n' = o.plot_df_n
        /\ fig' = o.fig
        /\ listing' = o.listing
        /\ shown' = o.shown
        /\ total_effort' = o.total_effort

\* the pass stops before the filters: no file, or load_data returned None
Stopped(err) ==
    /\ df_source' = None
    /\ load_error' = err
    /\ selected' = EmptyFun
    /\ sort_column' = EFFORT_COL
    /\ sort_ascending' = FALSE
    /\ graph_type' = HORIZONTAL
    /\ num_items_to_show' = 20
    /\ filtered_df' = << >>
    /\ applied_filters' = EmptyFun
    /\ group_cols' = << >>
    /\ result_df' = << >>
    /\ result_df_sorted' = << >>
    /\ plot_df_n' = << >>
    /\ fig' = << >>
    /\ listing' = << >>
    /\ shown' = IF err THEN {ERROR_LOAD} ELSE {INFO_UPLOAD}
    /\ total_effort' = 0

\* a file is uploaded and loads: the first pass, every widget at its default
Upload(tables) ==
    /\ df_source = None
    /\ \E t \in tables : RunPass(t, NoSelection(t), EFFORT_COL, FALSE, HORIZONTAL, 20)
    /\ UNCHANGED cli_vars

UploadSmall == Upload(SmallTables)
UploadWide == Upload(WideTables)
UploadLong == Upload(LongTables)

\* a file is uploaded and load_data fails
UploadFails ==
    /\ df_source = None
    /\ ~load_error
    /\ Stopped(TRUE)
    /\ UNCHANGED cli_vars

\* the file is removed from the uploader
RemoveFile ==
    /\ df_source # None \/ load_error
    /\ Stopped(FALSE)
    /\ UNCHANGED cli_vars

\* the multiselects in the order the pass renders them
FilterOrder(df) ==
    available_base_columns(df)
        \o (IF unit_col_exists_in_source(df) THEN << UNIT_COL >> ELSE << >>)

\* a rerun after the user changed one multiselect: the widgets rendered
\* before it return what they returned, the changed one returns the new
\* choice, and a widget after it returns what is left of its choice (its
\* options may have changed, and the choices no longer offered are gone)
OneWidgetChanged(df, old, new) ==
    LET order == FilterOrder(df)
        k == CHOOSE i \in DOMAIN order :
                /\ new[order[i]] # old[order[i]]
                /\ \A j \in 1..(i - 1) : new[order[j]] = old[order[j]]
    IN  \A j \in (k + 1)..Len(order) : new[order[j]] \subseteq old[order[j]]

\* the user changes a multiselect; the pass reruns
ChangeFilters ==
    /\ df_source # None
    /\ \E sel \in Selections(df_source) \ {selected} :
           /\ OneWidgetChanged(df_source, selected, sel)
           /\ RunPass(df_source, sel, sort_column, sort_ascending, graph_type,
                      num_items_to_show)
    /\ UNCHANGED cli_vars

\* the user changes the sort column or the sort order; the pass reruns
ChangeSort ==
    /\ df_source # None
    /\ TABLE \in shown
    /\ \E sc \in Range(group_cols) \cup {EFFORT_COL}, asc \in BOOLEAN :
           /\ <<sc, asc>> # <<sort_column, sort_ascending>>
           /\ RunPass(df_source, selected, sc, asc, graph_type, num_items_to_show)
    /\ UNCHANGED cli_vars

\* the user changes the graph type or the number of items; the pass reruns
ChangeChart ==
    /\ df_source # None
    /\ TABLE \in shown
    /\ \E gt \in graph_type_options, n \in num_items_options :
           /\ <<gt, n>> # <<graph_type, num_items_to_show>>
           /\ RunPass(df_source, selected, sort_column, sort_ascending, gt, n)
    /\ UNCHANGED cli_vars

----------------------------------------------------------------------------
(* The command-line entry point *)

\* result.head(10)
TOP_ROWS == 10

\* the lines the program prints
USAGE == "usage"
ANALYZING == "analyzing_file"
NO_FILE_GIVEN == "no_file_given"
ERROR_LINE == "error"
ERROR_ANALYSIS == "error_during_analysis"
ERROR_NO_EFFORT_COL == "error_effort_column_not_found"
RESULT_TABLE == "result_table_top_10"
GRAND_TOTAL == "grand_total"
ROW_COUNT == "row_count"
ANALYSIS_DONE == "analysis_done"

\* the command line and what it meets: which arguments are given, the table
\* the file holds (None when read_excel or concat raises), whether --decimal
\* is a usable precision, and whether the streamlit module imported at the
\* top has the attribute session_state
Argv(args, table, decimal_ok, session_state) ==
    [args |-> args, table |-> table, decimal_ok |-> decimal_ok,
     session_state |-> session_state]

NoArgv == Argv("none", None, TRUE, TRUE)

NoReport == [top |-> << >>, total |-> 0, rows |-> 0]

\* 'streamlit' in sys.modules and hasattr(st, 'session_state'); the module
\* is imported at the top of the file
_is_streamlit_running(a) == TRUE /\ a.session_state

\* group_cols of analyze_file: every available category column and the unit
analyze_group_cols(df) ==
    LET cols == ColsIn(BASE_COLUMN_ORDER, df.columns)
    IN  IF UNIT_COL \in df.columns /\ UNIT_COL \notin Range(cols)
        THEN Append(cols, UNIT_COL) ELSE cols

\* analyze_file: the outcomes [raised, out, report]; raised means the
\* exception left the function after its handler printed ERROR_ANALYSIS
analyze_file(a) ==
    LET df == a.table
        cols == analyze_group_cols(df)
        failed(out) == [raised |-> TRUE, out |-> out \o << ERROR_ANALYSIS >>,
                        report |-> NoReport]
    IN  IF df = None THEN { failed(<< >>) }
        ELSE IF EFFORT_COL \notin df.columns
        THEN { [raised |-> FALSE, out |-> << ERROR_NO_EFFORT_COL >>, report |-> NoReport] }
        \* groupby raises on an empty list of keys
        ELSE IF cols = << >> THEN { failed(<< >>) }
        \* the format of line 84 raises on the first row
        ELSE IF ~a.decimal_ok /\ df.rows # << >> THEN { failed(<< >>) }
        \* no row to format: the table is printed, then line 91 raises
        ELSE IF ~a.decimal_ok THEN { failed(<< RESULT_TABLE >>) }
        ELSE { [raised |-> FALSE,
                out |-> << RESULT_TABLE, GRAND_TOTAL, ROW_COUNT, ANALYSIS_DONE >>,
                report |-> [top |-> SubSeq(sorted, 1,
                                           IF Len(sorted) < TOP_ROWS THEN Len(sorted)
                                           ELSE TOP_ROWS),
                            total |-> SumEffort(df.rows),
                            rows |-> Len(df.rows)]]
               : sorted \in SortValues(GroupBySum(df.rows, cols), EFFORT_COL, FALSE) }

\* main(): the outcomes [exit, out, report]; exit is << >> when main returns
main(a) ==
    IF ~_is_streamlit_running(a)
    THEN IF a.args = "invalid"
         \* parse_arguments: argparse reports the error on stderr and exits
         THEN { [exit |-> << 2 >>, out |-> << >>, report |-> NoReport] }
         ELSE IF a.args = "none"
         THEN { [exit |-> << 0 >>, out |-> << USAGE, USAGE >>, report |-> NoReport] }
         ELSE IF a.args = "file"
         THEN { IF r.raised
                THEN [exit |-> << 1 >>, out |-> << ANALYZING >> \o r.out \o << ERROR_LINE >>,
                      report |-> r.report]
                ELSE [exit |-> << >>, out |-> << ANALYZING >> \o r.out, report |-> r.report]
                : r \in analyze_file(a) }
         ELSE { [exit |-> << 1 >>, out |-> << NO_FILE_GIVEN >>, report |-> NoReport] }
    ELSE { [exit |-> << >>, out |-> << >>, report |-> NoReport] }

CommandLines ==
    { Argv(args, table, decimal_ok, session_state) :
        args \in {"none", "file", "decimal_only", "invalid"},
        table \in SmallTables \cup {None},
        decimal_ok \in BOOLEAN, session_state \in BOOLEAN }

RunMain(a) ==
    \E o \in main(a) :
        /\ argv' = a
        /\ stdout' = stdout \o o.out
        /\ report' = IF o.report = NoReport THEN report ELSE o.report
        /\ exit_status' = o.exit
        /\ pc' = IF o.exit # << >> THEN "exited"
                 ELSE IF _is_streamlit_running(a) THEN "streamlit_app"
                 ELSE IF pc = "start" THEN "first_main_returned"
                 ELSE "finished"
    /\ UNCHANGED gui_vars

\* python runs the file: the first `if __name__ == "__main__"` block
FirstMain ==
    /\ pc = "start"
    /\ \E a \in CommandLines :
          /\ a.args # "file" => a.table = None /\ a.decimal_ok
          /\ RunMain(a)

\* main returned without exiting: the second, identical block calls it again
SecondMain ==
    /\ pc = "first_main_returned"
    /\ RunMain(argv)


InitGui ==
    /\ df_source = None
    /\ load_error = FALSE
    /\ selected = EmptyFun
    /\ sort_column = EFFORT_COL
    /\ sort_ascending = FALSE
    /\ graph_type = HORIZONTAL
    /\ num_items_to_show = 20
    /\ filtered_df = << >>
    /\ applied_filters = EmptyFun
    /\ group_cols = << >>
    /\ result_df = << >>
    /\ result_df_sorted = << >>
    /\ plot_df_n = << >>
    /\ fig = << >>
    /\ listing = << >>
    /\ shown = {INFO_UPLOAD}
    /\ total_effort = 0

InitCliIdle ==
    /\ pc = "not_started"
    /\ argv = NoArgv
    /\ stdout = << >>
    /\ report = NoReport
    /\ exit_status = << >>

Init == InitGui /\ InitCliIdle

\* the viewer on small tables: load and filters
Next == UploadSmall \/ UploadFails \/ RemoveFile \/ ChangeFilters

Spec == Init /\ [][Next]_vars

\* the viewer on wide one-row tables: filters
NextKey == UploadWide \/ ChangeFilters

SpecKey == Init /\ [][NextKey]_vars

\* the viewer on long tables: sort and chart
NextChart == UploadLong \/ ChangeSort \/ ChangeChart

SpecChart == Init /\ [][NextChart]_vars

InitCli ==
    /\ InitGui
    /\ pc = "start"
    /\ argv = NoArgv
    /\ stdout = << >>
    /\ report = NoReport
    /\ exit_status = << >>

NextCli == FirstMain \/ SecondMain

SpecCli == InitCli /\ [][NextCli]_vars

----------------------------------------------------------------------------
(* Properties *)

Loaded == ~df_source.none

\* the row test of the filter contract for one column and one chosen set
Passes(r, c, chosen) ==
    chosen # {} =>
        \/ r[c] # NaN /\ r[c] \in chosen \ {BLANK_STR}
        \/ r[c] = NaN /\ BLANK_STR \in chosen

\* the category columns of the loaded table that carry a non-empty choice
FilteredCats == {c \in Range(available_base_columns(df_source)) : selected[c] # {}}

\* the key the derivation rule prescribes, before the unit column
ExpectedBaseKey ==
    LET avail == available_base_columns(df_source)
        hits == {i \in DOMAIN avail : avail[i] \in FilteredCats}
    IN  IF hits = {} THEN avail
        ELSE LET k == CHOOSE i \in hits : \A j \in hits : j <= i
             IN  [i \in 1..(Len(avail) - k) |-> avail[k + i]]

KeyBeforeUnit == SelectSeq(group_cols, LAMBDA c : c # UNIT_COL)

\* C1: with no category filter the key (before the unit column) is the list
\* of available category columns; otherwise it is exactly the available
\* columns after the last filtered one, in priority order.
C1_GroupKeyDerivation == Loaded => KeyBeforeUnit = ExpectedBaseKey

C1_Witness ==
    /\ Loaded
    /\ LET avail == available_base_columns(df_source)
       IN  /\ Len(avail) = 4
           /\ selected[avail[1]] # {} /\ selected[avail[2]] = {}
           /\ selected[avail[3]] # {} /\ selected[avail[4]] = {}
           /\ KeyBeforeUnit = << avail[4] >>

\* C2: when the loaded table has the unit column, the key holds it exactly
\* once, as its last element, whatever is chosen in the category and unit
\* filters; the category columns of the key depend on the category choices
\* alone.
C2_UnitColumnLast ==
    (Loaded /\ UNIT_COL \in df_source.columns) =>
        /\ group_cols # << >>
        /\ group_cols[Len(group_cols)] = UNIT_COL
        /\ Cardinality({i \in DOMAIN group_cols : group_cols[i] = UNIT_COL}) = 1
        /\ SubSeq(group_cols, 1, Len(group_cols) - 1) = ExpectedBaseKey

C2_Witness ==
    /\ Loaded
    /\ UNIT_COL \in df_source.columns
    /\ Len(available_base_columns(df_source)) = 2
    /\ FilteredCats = Range(available_base_columns(df_source))
    /\ selected[UNIT_COL] # {}
    /\ group_cols = << UNIT_COL >>

\* C3: after a pass the filtered rows are exactly the source rows that, for
\* every filter column with a non-empty chosen set, hold one of the chosen
\* concrete values, or are missing there while the blank sentinel is chosen.
C3_FilterRowTest ==
    Loaded =>
        filtered_df = SelectSeq(df_source.rows,
                                LAMBDA r : \A c \in FilterColumns(df_source) :
                                              Passes(r, c, selected[c]))

C3_Witness ==
    /\ Loaded
    /\ \E c, d \in FilterColumns(df_source) :
          /\ BLANK_STR \in selected[c]
          /\ \E i \in DOMAIN filtered_df : filtered_df[i][c] = NaN
          /\ selected[d] # {} /\ BLANK_STR \notin selected[d]
          /\ \E i \in DOMAIN df_source.rows :
                /\ df_source.rows[i][d] = NaN
                /\ df_source.rows[i] \notin Range(filtered_df)

\* F' gives a non-empty chosen set to one column that had none in F and
\* leaves the other columns as they were
AddsOneFilter(F, G) ==
    /\ DOMAIN F = DOMAIN G
    /\ \E c \in DOMAIN F :
          /\ F[c] = {} /\ G[c] # {}
          /\ \A d \in DOMAIN F \ {c} : G[d] = F[d]

\* C4: adding a filter on a column that had none, the other choices kept,
\* leaves a subset of the rows: the filtered row count never increases.
C4_FilterMonotone ==
    [][ (Loaded /\ df_source' = df_source /\ AddsOneFilter(selected, selected')) =>
            /\ Range(filtered_df') \subseteq Range(filtered_df)
            /\ Len(filtered_df') <= Len(filtered_df) ]_vars

C4_Witness ==
    /\ Loaded
    /\ Cardinality({c \in DOMAIN selected : selected[c] # {}}) = 2
    /\ UNIT_COL \in DOMAIN selected
    /\ selected[UNIT_COL] # {}
    /\ Len(filtered_df) = 1
    /\ Len(df_source.rows) = 2

\* C5: the per-group sums of the aggregated result add up to the sum of the
\* effort column over the filtered rows, and every filtered row, missing key
\* values included, is counted in the group of its (blank-filled) key.
C5_TotalInvariantToGrouping ==
    TABLE \in shown =>
        /\ SumEffort(result_df) = SumEffort(filtered_df)
        /\ \A i \in DOMAIN filtered_df :
              \E g \in DOMAIN result_df :
                 \A c \in Range(group_cols) :
                    result_df[g][c] = FillNa(filtered_df[i][c])

C5_Witness ==
    /\ TABLE \in shown
    /\ Len(filtered_df) = 2
    /\ \E g \in DOMAIN result_df :
          /\ result_df[g][EFFORT_COL] = 3
          /\ \E c \in Range(group_cols) : result_df[g][c] = BLANK_STR

\* C6: rows whose sort-column values compare equal keep, in the sorted
\* result, the relative order they had in the aggregated result.
C6_SortKeepsTieOrder ==
    TABLE \in shown =>
        \A i, j \in DOMAIN result_df_sorted :
            (i < j /\ SortKey(result_df_sorted[i], sort_column)
                        = SortKey(result_df_sorted[j], sort_column))
                => IndexOf(result_df, result_df_sorted[i])
                     < IndexOf(result_df, result_df_sorted[j])

\* the process has ended, by sys.exit or by reaching the end of the file
Terminated == pc \in {"exited", "finished"}

ExitCode == IF exit_status = << >> THEN 0 ELSE exit_status[1]

Printed(line) == \E i \in DOMAIN stdout : stdout[i] = line

ErrorLines ==
    {i \in DOMAIN stdout :
        stdout[i] \in {ERROR_LINE, ERROR_ANALYSIS, ERROR_NO_EFFORT_COL}}

\* a run of the command line with a file argument, outside streamlit
FileRun == Terminated /\ argv.args = "file" /\ ~_is_streamlit_running(argv)

\* C7: a run with a file argument that fails (the table cannot be loaded, or
\* the effort column is missing) prints a one-line error, ends with a
\* non-zero status and prints no result; a successful run prints the result
\* table, the grand total and the row count and does not end non-zero.
C7_CommandLineFailureReporting ==
    FileRun =>
        IF argv.table = None \/ EFFORT_COL \notin argv.table.columns
        THEN /\ ExitCode # 0
             /\ Cardinality(ErrorLines) = 1
             /\ ~Printed(RESULT_TABLE) /\ ~Printed(GRAND_TOTAL) /\ ~Printed(ROW_COUNT)
        ELSE ExitCode = 0 =>
                Printed(RESULT_TABLE) /\ Printed(GRAND_TOTAL) /\ Printed(ROW_COUNT)

\* the key is empty although the effort column exists
EmptyKey == Loaded /\ EFFORT_COL \in df_source.columns /\ group_cols = << >>

NoGroupingStep ==
    /\ TABLE \notin shown /\ CHART \notin shown /\ NO_CHART \notin shown
    /\ result_df = << >> /\ result_df_sorted = << >> /\ fig = << >>

NoErrorShown == ERROR_NO_EFFORT \notin shown /\ ERROR_LOAD \notin shown

FlatListing ==
    LET cols == FilterColumns(df_source) \cup {EFFORT_COL}
    IN  [i \in 1..Len(filtered_df) |-> [c \in cols |-> filtered_df[i][c]]]

ReportsTotalAndListing ==
    /\ {FALLBACK_TOTAL, FALLBACK_LISTING} \subseteq shown
    /\ total_effort = SumEffort(filtered_df)
    /\ listing = FlatListing

\* C8 as stated: with an empty key the pass groups, sorts and charts nothing
\* and reports the total and the flat listing, for every filtered row set,
\* one with zero rows included, without an error.
C8_EmptyKeyFallback_Original ==
    EmptyKey => NoGroupingStep /\ NoErrorShown /\ ReportsTotalAndListing

\* C8 amended: with an empty key the pass groups, sorts and charts nothing
\* and shows no error; it reports the total and the flat listing when the
\* filtered row set is not empty, and the no-matching-data notice, without
\* the listing, when the filtered row set has zero rows.
C8_EmptyKeyFallback ==
    EmptyKey =>
        /\ NoGroupingStep /\ NoErrorShown
        /\ IF filtered_df # << >>
           THEN ReportsTotalAndListing /\ INFO_NO_MATCH \notin shown
           ELSE /\ INFO_NO_MATCH \in shown
                /\ FALLBACK_TOTAL \notin shown /\ FALLBACK_LISTING \notin shown
                /\ listing = << >>

C8_Witness ==
    /\ EmptyKey
    /\ FilteredCats # {}
    /\ Len(filtered_df) = 1 /\ Len(df_source.rows) = 2
    /\ FALLBACK_LISTING \in shown

\* the (label, value) pair charted for a row of the sorted result
Charted(r) == [label |-> KeyOf(r, group_cols), effort |-> r[EFFORT_COL]]

\* C9: the charted sequence is the first N rows of the sorted result, in
\* that order, for an integer choice N below the row count R, and all R rows
\* otherwise; the horizontal chart gets that sequence reversed.
C9_ChartKeepsSortOrder ==
    TABLE \in shown =>
        LET R == Len(result_df_sorted)
            N == num_items_to_show
            count == IF N # ALL_ITEMS /\ N < R THEN N ELSE R
        IN  /\ plot_df_n = [i \in 1..count |-> Charted(result_df_sorted[i])]
            /\ fig = IF graph_type = HORIZONTAL
                     THEN [i \in 1..count |-> Charted(result_df_sorted[count + 1 - i])]
                     ELSE plot_df_n

C9_Witness ==
    /\ TABLE \in shown
    /\ num_items_to_show = 10
    /\ Len(result_df_sorted) = 11
    /\ Len(plot_df_n) = 10
    /\ graph_type = HORIZONTAL
    /\ sort_column # EFFORT_COL /\ sort_ascending
    /\ fig[1] = Charted(result_df_sorted[10])

\* the source rows that pass the tests of the category columns in cols
Surviving(cols) ==
    SelectSeq(df_source.rows, LAMBDA r : \A c \in cols : Passes(r, c, selected[c]))

\* C10: each category choice is taken from the values (missing shown as the
\* sentinel) of its column among the rows surviving the higher-priority
\* category filters, so over a non-empty table the rows are not exhausted by
\* the category filters: an empty filtered set comes from the unit filter.
C10_CascadeNonEmpty ==
    (Loaded /\ df_source.rows # << >>) =>
        LET avail == available_base_columns(df_source)
        IN  /\ \A i \in DOMAIN avail :
                  selected[avail[i]] \subseteq
                      Options(Surviving({avail[j] : j \in 1..(i - 1)}), avail[i])
            /\ Surviving(Range(avail)) # << >>
            /\ filtered_df = << >> =>
                  UNIT_COL \in df_source.columns /\ selected[UNIT_COL] # {}

C10_Witness ==
    /\ Loaded
    /\ Len(df_source.rows) = 2
    /\ Cardinality(FilteredCats) = 2
    /\ Len(Surviving(FilteredCats)) = 1
    /\ UNIT_COL \in DOMAIN selected
    /\ selected[UNIT_COL] # {}
    /\ filtered_df = << >>

====
